---------------------------- MODULE Spec2Model ----------------------------
(***************************************************************************)
(* Model of SendGIF.send_gif                                               *)
(* (src/pyrogram/client/methods/messages/media/send_gif.py).               *)
(*                                                                         *)
(* One call of send_gif is a sequential process.  Its steps are the        *)
(* points where it talks to a collaborator: the uploader (save_file), the  *)
(* peer resolver (resolve_peer) and the remote endpoint (send).  Every     *)
(* such operation is appended to the call's log, so that properties about  *)
(* what was issued, with which arguments and in which order are state      *)
(* predicates over the log.                                                *)
(***************************************************************************)
EXTENDS Integers, Sequences, FiniteSets, TLC

(***************************************************************************)
(* Bounds of the model.                                                    *)
(***************************************************************************)
\* number of send_gif call slots
NumCalls == 2
\* cap on the send-media requests one call issues (the code has no cap)
MaxSends == 3

Calls == 1..NumCalls

(***************************************************************************)
(* Python values.                                                          *)
(***************************************************************************)
None == [tag |-> "None"]

\* A string is a sequence of one-character strings.
\* str.startswith
StartsWith(s, p) ==
    /\ Len(s) >= Len(p)
    /\ SubSeq(s, 1, Len(p)) = p

Http == <<"h", "t", "t", "p">>

RECURSIVE LastSlash(_, _)
LastSlash(s, i) ==
    IF i = 0 THEN 0
    ELSE IF s[i] = "/" THEN i
    ELSE LastSlash(s, i - 1)

\* os.path.basename: what follows the last "/"
BasenameM(s) == s

Basename(s) == SubSeq(s, LastSlash(s, Len(s)) + 1, Len(s))

(***************************************************************************)
(* The opaque identifier codec.                                            *)
(***************************************************************************)
\* the URL-safe base64 alphabet, value i-1 at position i
Alphabet ==
    << "A","B","C","D","E","F","G","H","I","J","K","L","M","N","O","P",
       "Q","R","S","T","U","V","W","X","Y","Z","a","b","c","d","e","f",
       "g","h","i","j","k","l","m","n","o","p","q","r","s","t","u","v",
       "w","x","y","z","0","1","2","3","4","5","6","7","8","9","-","_" >>

AlphabetSet == {Alphabet[i] : i \in 1..64}

Sextet(ch) == (CHOOSE i \in 1..64 : Alphabet[i] = ch) - 1

RECURSIVE B64Bytes(_)
B64Bytes(sx) ==
    IF Len(sx) < 2 THEN <<>>
    ELSE IF Len(sx) = 2 THEN
        << sx[1] * 4 + sx[2] \div 16 >>
    ELSE IF Len(sx) = 3 THEN
        << sx[1] * 4 + sx[2] \div 16, (sx[2] % 16) * 16 + sx[3] \div 4 >>
    ELSE
        << sx[1] * 4 + sx[2] \div 16,
           (sx[2] % 16) * 16 + sx[3] \div 4,
           (sx[3] % 4) * 64 + sx[4] >> \o B64Bytes(SubSeq(sx, 5, Len(sx)))

\* utils.decode: the text-safe encoding reversed; [ok |-> FALSE] is
\* binascii.Error
decode(s) ==
    IF \/ \E i \in 1..Len(s) : s[i] \notin AlphabetSet
       \/ Len(s) % 4 = 1
    THEN [ok |-> FALSE, bytes |-> <<>>]
    ELSE [ok |-> TRUE, bytes |-> B64Bytes([i \in 1..Len(s) |-> Sextet(s[i])])]

\* a little-endian two's-complement integer of Len(b) bytes
RECURSIVE LESigned(_)
LESigned(b) ==
    IF Len(b) = 1 THEN (IF b[1] >= 128 THEN b[1] - 256 ELSE b[1])
    ELSE LESigned(SubSeq(b, 2, Len(b))) * 256 + b[1]

\* byte widths of the struct formats "<iiqq" and "<iiqqqqi"
FmtShort == <<4, 4, 8, 8>>
FmtLong == <<4, 4, 8, 8, 8, 8, 4>>

RECURSIVE FmtSize(_)
FmtSize(fmt) ==
    IF fmt = <<>> THEN 0 ELSE fmt[1] + FmtSize(Tail(fmt))

RECURSIVE UnpackFields(_, _)
UnpackFields(fmt, b) ==
    IF fmt = <<>> THEN <<>>
    ELSE <<LESigned(SubSeq(b, 1, fmt[1]))>>
            \o UnpackFields(Tail(fmt), SubSeq(b, fmt[1] + 1, Len(b)))

\* struct.unpack: the buffer must have exactly the format's size;
\* [ok |-> FALSE] is struct.error
struct_unpack(fmt, b) ==
    IF Len(b) # FmtSize(fmt)
    THEN [ok |-> FALSE, fields |-> <<>>]
    ELSE [ok |-> TRUE, fields |-> UnpackFields(fmt, b)]

(***************************************************************************)
(* Identifiers as the layout table writes them (inputs of the model).      *)
(***************************************************************************)
RECURSIVE LEBytes(_, _)
LEBytes(n, w) ==
    IF w = 0 THEN <<>> ELSE <<n % 256>> \o LEBytes(n \div 256, w - 1)

RECURSIVE PackFields(_, _)
PackFields(fmt, v) ==
    IF fmt = <<>> THEN <<>>
    ELSE LEBytes(v[1], fmt[1]) \o PackFields(Tail(fmt), Tail(v))

RECURSIVE B64Sextets(_)
B64Sextets(b) ==
    IF b = <<>> THEN <<>>
    ELSE IF Len(b) = 1 THEN << b[1] \div 4, (b[1] % 4) * 16 >>
    ELSE IF Len(b) = 2 THEN
        << b[1] \div 4, (b[1] % 4) * 16 + b[2] \div 16, (b[2] % 16) * 4 >>
    ELSE
        << b[1] \div 4,
           (b[1] % 4) * 16 + b[2] \div 16,
           (b[2] % 16) * 4 + b[3] \div 64,
           b[3] % 64 >> \o B64Sextets(SubSeq(b, 4, Len(b)))

encode(b) == [i \in 1..Len(B64Sextets(b)) |-> Alphabet[B64Sextets(b)[i] + 1]]

(***************************************************************************)
(* Values of the call.                                                     *)
(***************************************************************************)
\* a value that may be None is Some(v) or None ("v if v else None")
Some(v) == [tag |-> "Some", v |-> v]

\* "x or None", line 175
OrNone(x) == IF x = Some(TRUE) THEN x ELSE None

\* an exception: who raised it, its class and its arguments
Err(origin, type, detail, name, code) ==
    [origin |-> origin, type |-> type, detail |-> detail,
     name |-> name, code |-> code]

\* the three FileIdInvalid errors send_gif raises itself
FileIdInvalid == Err("send_gif", "FileIdInvalid", "", "", 0)

FileIdInvalidBelongs(media_type) ==
    Err("send_gif", "FileIdInvalid", "The file_id belongs to a {}",
        media_type, 0)

FileIdInvalidUnknown(kind) ==
    Err("send_gif", "FileIdInvalid", "Unknown media type: {}", "", kind)

\* evaluating file.id with file = None, line 183
AttributeError ==
    Err("send_gif", "AttributeError",
        "'NoneType' object has no attribute 'id'", "", 0)

\* the failures of the collaborators
FilePartMissing(x) == Err("send", "FilePartMissing", "", "", x)

OtherSendErrors ==
    { Err("send", "FileIdInvalid", "", "", 0),
      Err("send", "ChatWriteForbidden", "", "", 0) }

UploadError == Err("save_file", "Error", "", "", 0)

PeerIdInvalid == Err("resolve_peer", "PeerIdInvalid", "", "", 0)

\* part indices a FilePartMissing error carries in the model
PartIndices == {0, 3}

\* values rnd_id() returns in the model
RndIds == {101, 102}

\* ids of the handles save_file returns in the model
FileIds == {11, 12}

InputFile(id) == [tag |-> "InputFile", id |-> id]

\* BaseClient.MEDIA_TYPE_ID, the table of media type names
MEDIA_TYPE_ID == (2 :> "video") @@ (10 :> "document")

\* dict.get(key, None); a missing key gives None, written "" here
MediaTypeGet(kind) ==
    IF kind \in DOMAIN MEDIA_TYPE_ID THEN MEDIA_TYPE_ID[kind] ELSE ""

\* the media type code send_gif accepts, line 154
DocumentKind == 10

\* the longest buffer unpacked with the short format, line 149
ShortMax == 24

(***************************************************************************)
(* Media resolution, lines 124-167.                                        *)
(***************************************************************************)
\* the branch taken for the reference, lines 124, 142, 146
RouteM(gif, exists) ==
    IF StartsWith(gif, Http) THEN "url"
    ELSE IF exists THEN "local"
    ELSE "file_id"

Route(gif, exists) ==
    IF exists THEN "local"
    ELSE IF StartsWith(gif, Http) THEN "url"
    ELSE "file_id"

\* line 149
FormatForM(decoded) ==
    IF Len(decoded) >= ShortMax THEN FmtLong ELSE FmtShort

FormatFor(decoded) ==
    IF Len(decoded) > ShortMax THEN FmtLong ELSE FmtShort

\* lines 164 and 165: the tuple positions read (unpacked[2], unpacked[3])
DocumentIdM(unpacked) ==
    IF Len(unpacked) = 7 THEN unpacked[5] ELSE unpacked[3]

DocumentId(unpacked) == unpacked[3]

DocumentAccessHash(unpacked) == unpacked[4]

\* lines 162-167
InputMediaDocument(unpacked) ==
    [tag |-> "InputMediaDocument",
     id |-> [tag |-> "InputDocument",
             id |-> DocumentId(unpacked),
             access_hash |-> DocumentAccessHash(unpacked)]]

\* lines 154-160: the error for a kind, None for the accepted kind
KindErrorM(kind) ==
    IF kind # DocumentKind /\ MediaTypeGet(kind) = ""
    THEN Some(FileIdInvalidUnknown(kind))
    ELSE None

KindError(kind) ==
    IF kind # DocumentKind
    THEN IF MediaTypeGet(kind) # ""
         THEN Some(FileIdInvalidBelongs(MediaTypeGet(kind)))
         ELSE Some(FileIdInvalidUnknown(kind))
    ELSE None

\* lines 147-167: the descriptor for an opaque identifier, or the error
FromFileId(gif) ==
    LET decoded == decode(gif)
        unpacked == struct_unpack(FormatFor(decoded.bytes), decoded.bytes)
    IN  IF ~decoded.ok \/ ~unpacked.ok
        THEN [ok |-> FALSE, exc |-> FileIdInvalid, media |-> None]
        ELSE IF KindError(unpacked.fields[1]) # None
        THEN [ok |-> FALSE, exc |-> KindError(unpacked.fields[1]).v,
              media |-> None]
        ELSE [ok |-> TRUE, exc |-> None,
              media |-> InputMediaDocument(unpacked.fields)]

\* lines 143-145
InputMediaDocumentExternal(url) ==
    [tag |-> "InputMediaDocumentExternal", url |-> url]

\* mimetypes.types_map[".mp4"], line 128
MimeMp4 == <<"v","i","d","e","o","/","m","p","4">>

\* lines 127-141
InputMediaUploadedDocument(a, file_, thumb_) ==
    [tag |-> "InputMediaUploadedDocument",
     mime_type |-> MimeMp4,
     file |-> file_,
     thumb |-> thumb_,
     attributes |->
        << [tag |-> "DocumentAttributeVideo", supports_streaming |-> TRUE,
            duration |-> a.duration, w |-> a.width, h |-> a.height],
           [tag |-> "DocumentAttributeFilename",
            file_name |-> Basename(a.gif)],
           [tag |-> "DocumentAttributeAnimated"] >>]

(***************************************************************************)
(* The arguments of a call.                                                *)
(***************************************************************************)
ClipPath == <<"/","t","m","p","/","c","l","i","p",".","m","p","4">>
HttpUrl == <<"h","t","t","p",":","/","/","e","/","a",".","g","i","f">>
\* a relative path of a local file whose name begins with "http"
HttpNamed == <<"h","t","t","p","_","c","l","i","p">>
ThumbPath == <<"/","t","m","p","/","t",".","j","p","g">>

\* the media type codes of the identifiers of the model: the accepted one,
\* one of another type in the table, two that are in no table
Kinds == {DocumentKind, 2, 99, -1}

\* the identifiers of the model, by the fields written into them; short
\* layout: kind, dc_id, media_id, access_hash; long layout: kind, dc_id, a,
\* b, media_id, access_hash, trailer
IdInputs ==
    {[fmt |-> FmtShort, fields |-> <<k, 1, 5, -3>>] : k \in Kinds}
        \cup {[fmt |-> FmtLong, fields |-> <<k, 1, 7, -8, 6, -4, 0>>] :
                    k \in Kinds}

TextOf(i) == encode(PackFields(i.fmt, i.fields))

IdTexts == {TextOf(i) : i \in IdInputs}

\* the fields that were written into an identifier of the model
Written == [g \in IdTexts |-> CHOOSE i \in IdInputs : TextOf(i) = g]

IdShort(kind) == TextOf([fmt |-> FmtShort, fields |-> <<kind, 1, 5, -3>>])

\* texts that decode to a length of neither layout, or that do not decode
BadIds ==
    { encode(SubSeq(PackFields(FmtShort, <<DocumentKind, 1, 5, -3>>), 1, 20)),
      encode(SubSeq(PackFields(FmtLong, <<DocumentKind, 1, 5, -3, 6, -4, 0>>),
                    1, 32)),
      encode(PackFields(FmtLong, <<DocumentKind, 1, 5, -3, 6, -4, 0>>)
                \o <<0, 0, 0, 0>>),
      <<"C","g","A","A","!">>,
      <<"C","g","A","A","A">> }

\* the byte lengths of the identifiers of the model that fit no layout:
\* below 24, between 24 and 44, above 44
LengthInputs == {20, 23, 25, 32, 43, 45, 48}

PaddedId ==
    PackFields(FmtLong, <<DocumentKind, 1, 5, -3, 6, -4, 0>>) \o <<0, 0, 0, 0>>

\* a text that decodes to n bytes
TextOfLength(n) == encode(SubSeq(PaddedId, 1, n))

OddLengthIds == {TextOfLength(n) : n \in LengthInputs}

Gifs ==
    {ClipPath, HttpUrl, HttpNamed}
        \cup IdTexts \cup BadIds \cup OddLengthIds

\* the references for which a local file may exist
MaybeLocal == {ClipPath, HttpNamed, IdShort(DocumentKind)}

\* the other arguments: all defaults, or all given
Options ==
    { [thumb |-> None, caption |-> "", parse_mode |-> "",
       duration |-> 0, width |-> 0, height |-> 0,
       disable_notification |-> None, reply_to_message_id |-> None,
       reply_markup |-> None, progress |-> None],
      [thumb |-> Some(ThumbPath), caption |-> "hi", parse_mode |-> "HTML",
       duration |-> 5, width |-> 100, height |-> 100,
       disable_notification |-> Some(TRUE), reply_to_message_id |-> Some(42),
       reply_markup |-> Some("keyboard"), progress |-> Some("callback")] }

\* the arguments of send_gif, lines 30-43, with what os.path.exists(gif)
\* answers during the call
MkArgs(gif, exists, o) ==
    [chat_id |-> "me", gif |-> gif, exists |-> exists,
     caption |-> o.caption, parse_mode |-> o.parse_mode,
     duration |-> o.duration, width |-> o.width, height |-> o.height,
     thumb |-> o.thumb, disable_notification |-> o.disable_notification,
     reply_to_message_id |-> o.reply_to_message_id,
     reply_markup |-> o.reply_markup, progress |-> o.progress]

ArgSet ==
    { MkArgs(g, ex, o) :
        g \in Gifs, ex \in BOOLEAN, o \in Options }

CallArgs == { a \in ArgSet : a.exists => a.gif \in MaybeLocal }

NoArgs ==
    MkArgs(<<>>, FALSE,
           CHOOSE o \in Options : o.thumb = None)

(***************************************************************************)
(* The success responses of the remote endpoint.                           *)
(***************************************************************************)
UpdateNewMessage(id) ==
    [tag |-> "UpdateNewMessage", message |-> [id |-> id]]

UpdateNewChannelMessage(id) ==
    [tag |-> "UpdateNewChannelMessage", message |-> [id |-> id]]

UpdateMessageID == [tag |-> "UpdateMessageID"]

\* the update lists of the model: none or one record of another tag, and
\* new-message records alone, after another record, and followed by more
UpdateLists ==
    { <<>>,
      <<UpdateMessageID>>,
      <<UpdateNewMessage(1)>>,
      <<UpdateNewChannelMessage(2)>>,
      <<UpdateMessageID, UpdateNewMessage(1)>>,
      <<UpdateMessageID, UpdateNewChannelMessage(2)>>,
      <<UpdateNewMessage(1), UpdateMessageID>>,
      <<UpdateNewMessage(1), UpdateNewChannelMessage(2)>>,
      <<UpdateNewChannelMessage(2), UpdateNewMessage(1)>>,
      <<UpdateMessageID, UpdateNewMessage(1), UpdateNewMessage(3)>> }

\* the entity lists differ between the responses with and without a new
\* message
Responses ==
    { [tag |-> "Updates", updates |-> u,
       users |-> IF u \in {<<>>, <<UpdateMessageID>>}
                 THEN << [id |-> 9, name |-> "u9"] >>
                 ELSE << [id |-> 7, name |-> "u7"] >>,
       chats |-> IF u \in {<<>>, <<UpdateMessageID>>}
                 THEN << [id |-> 6, name |-> "c6"] >>
                 ELSE << [id |-> 8, name |-> "c8"] >>] : u \in UpdateLists }

(***************************************************************************)
(* State.                                                                  *)
(***************************************************************************)
VARIABLES
    args,   \* the arguments of each call
    pc,     \* where each call is
    thumb,  \* the local thumb after line 125
    file,   \* the local file
    media,  \* the descriptor
    peer,   \* the peer resolved for the request being built
    e,      \* the FilePartMissing caught at line 182
    r,      \* the response of line 171
    ret,    \* what the call returned
    exc,    \* what the call raised
    log     \* the operations each call issued and the answers to its requests

vars == <<args, pc, thumb, file, media, peer, e, r, ret, exc, log>>

\* the entries of the log
SaveFileOp(path, file_id, file_part, progress) ==
    [op |-> "save_file", path |-> path, file_id |-> file_id,
     file_part |-> file_part, progress |-> progress]

ResolvePeerOp(chat_id) == [op |-> "resolve_peer", chat_id |-> chat_id]

SendOp(request) == [op |-> "send", request |-> request]

AnswerOp(kind, what) == [op |-> "answer", kind |-> kind, what |-> what]

NetOps == {"save_file", "resolve_peer", "send"}

RECURSIVE Count(_, _)
Count(l, op) ==
    IF l = <<>> THEN 0
    ELSE (IF l[1].op = op THEN 1 ELSE 0) + Count(Tail(l), op)

Init ==
    /\ args \in [Calls -> CallArgs \cup {NoArgs}]
    /\ args[1] \in CallArgs
    /\ \A c \in Calls \ {1} : args[c] = NoArgs
    /\ pc = [c \in Calls |-> IF c = 1 THEN "start" ELSE "idle"]
    /\ thumb = [c \in Calls |-> args[c].thumb]
    /\ file = [c \in Calls |-> None]
    /\ media = [c \in Calls |-> None]
    /\ peer = [c \in Calls |-> None]
    /\ e = [c \in Calls |-> None]
    /\ r = [c \in Calls |-> None]
    /\ ret = [c \in Calls |-> None]
    /\ exc = [c \in Calls |-> None]
    /\ log = [c \in Calls |-> <<>>]

(***************************************************************************)
(* The steps of a call.                                                    *)
(***************************************************************************)
Raise(c, x) ==
    /\ pc' = [pc EXCEPT ![c] = "raised"]
    /\ exc' = [exc EXCEPT ![c] = x]

Append1(c, entry) == log' = [log EXCEPT ![c] = Append(@, entry)]

\* lines 142-167: the calls to collaborators of the two branches that do
\* not upload: none
ResolveOpsM(a) ==
    IF a.thumb # None
    THEN <<SaveFileOp(a.thumb.v, None, None, None)>>
    ELSE <<>>

\* the peer is resolved while the media reference is
ResolveOpsPeer(a) == <<ResolvePeerOp(a.chat_id)>>

ResolveOps(a) == <<>>

\* lines 121-124 and 142-167: the branch on the reference; the two branches
\* that upload nothing build the descriptor here
Resolve(c) ==
    /\ pc[c] = "start"
    /\ LET a == args[c]
           route == Route(a.gif, a.exists)
       IN  \/ /\ route = "local"
              /\ pc' = [pc EXCEPT ![c] =
                            IF a.thumb = None THEN "upload" ELSE "thumb"]
              /\ UNCHANGED <<media, exc, log>>
           \/ /\ route = "url"
              /\ media' = [media EXCEPT ![c] = InputMediaDocumentExternal(a.gif)]
              /\ pc' = [pc EXCEPT ![c] = "loop"]
              /\ log' = [log EXCEPT ![c] = @ \o ResolveOps(a)]
              /\ UNCHANGED exc
           \/ /\ route = "file_id"
              /\ FromFileId(a.gif).ok
              /\ media' = [media EXCEPT ![c] = FromFileId(a.gif).media]
              /\ pc' = [pc EXCEPT ![c] = "loop"]
              /\ log' = [log EXCEPT ![c] = @ \o ResolveOps(a)]
              /\ UNCHANGED exc
           \/ /\ route = "file_id"
              /\ ~FromFileId(a.gif).ok
              /\ Raise(c, FromFileId(a.gif).exc)
              /\ log' = [log EXCEPT ![c] = @ \o ResolveOps(a)]
              /\ UNCHANGED media
    /\ UNCHANGED <<args, thumb, file, peer, e, r, ret>>

\* line 125, thumb given: self.save_file(thumb)
SaveThumbM(c) ==
    /\ pc[c] = "thumb"
    /\ Append1(c, SaveFileOp(args[c].thumb.v, None, None, None))
    /\ \/ \E id \in FileIds : thumb' = [thumb EXCEPT ![c] = InputFile(id)]
       \/ thumb' = [thumb EXCEPT ![c] = None]
    /\ pc' = [pc EXCEPT ![c] = "upload"]
    /\ UNCHANGED <<args, file, media, peer, e, r, ret, exc>>

SaveThumb(c) ==
    /\ pc[c] = "thumb"
    /\ Append1(c, SaveFileOp(args[c].thumb.v, None, None, None))
    /\ \/ \E id \in FileIds :
            /\ thumb' = [thumb EXCEPT ![c] = InputFile(id)]
            /\ pc' = [pc EXCEPT ![c] = "upload"]
            /\ UNCHANGED exc
       \/ /\ Raise(c, UploadError)
          /\ UNCHANGED thumb
    /\ UNCHANGED <<args, file, media, peer, e, r, ret>>

\* lines 126-141: self.save_file(gif, progress=...), then the descriptor
SaveFile(c) ==
    /\ pc[c] = "upload"
    /\ Append1(c, SaveFileOp(args[c].gif, None, None, args[c].progress))
    /\ \/ \E id \in FileIds :
            /\ file' = [file EXCEPT ![c] = InputFile(id)]
            /\ media' = [media EXCEPT ![c] =
                    InputMediaUploadedDocument(args[c], InputFile(id), thumb[c])]
            /\ pc' = [pc EXCEPT ![c] = "loop"]
            /\ UNCHANGED exc
       \/ /\ Raise(c, UploadError)
          /\ UNCHANGED <<file, media>>
    /\ UNCHANGED <<args, thumb, peer, e, r, ret>>

\* line 122
Style(parse_mode) ==
    IF parse_mode \in {"html", "HTML", "Html"} THEN "html" ELSE "markdown"

\* lines 172-180: the request, built anew by every pass of the loop
SendMedia(a, peer_, media_, rid) ==
    [tag |-> "SendMedia",
     peer |-> peer_,
     media |-> media_,
     silent |-> OrNone(a.disable_notification),
     reply_to_msg_id |-> a.reply_to_message_id,
     random_id |-> rid,
     reply_markup |-> IF a.reply_markup # None
                      THEN Some(<<"write", a.reply_markup.v>>) ELSE None,
     text |-> [style |-> Style(a.parse_mode), caption |-> a.caption]]

\* line 173, the first argument of the request: self.resolve_peer(chat_id)
ResolvePeer(c) ==
    /\ pc[c] = "loop"
    /\ Count(log[c], "send") < MaxSends
    /\ Append1(c, ResolvePeerOp(args[c].chat_id))
    /\ \/ /\ peer' = [peer EXCEPT ![c] = Some(<<"peer", args[c].chat_id>>)]
          /\ pc' = [pc EXCEPT ![c] = "send"]
          /\ UNCHANGED exc
       \/ /\ Raise(c, PeerIdInvalid)
          /\ UNCHANGED peer
    /\ UNCHANGED <<args, thumb, file, media, e, r, ret>>

\* lines 171-181: the other arguments, with a new rnd_id(), and self.send
Send(c) ==
    /\ pc[c] = "send"
    /\ \E rid \in RndIds :
          Append1(c, SendOp(SendMedia(args[c], peer[c].v, media[c], rid)))
    /\ pc' = [pc EXCEPT ![c] = "await"]
    /\ UNCHANGED <<args, thumb, file, media, peer, e, r, ret, exc>>

\* line 182: the request fails with FilePartMissing
RecvFilePartMissing(c) ==
    /\ pc[c] = "await"
    /\ \E x \in PartIndices :
          /\ e' = [e EXCEPT ![c] = Some(FilePartMissing(x))]
          /\ Append1(c, AnswerOp("FilePartMissing", FilePartMissing(x)))
    /\ pc' = [pc EXCEPT ![c] = "except"]
    /\ UNCHANGED <<args, thumb, file, media, peer, r, ret, exc>>

\* line 183 with another file id, and with a descriptor built again
RecoverUsing(c, fid, media2) ==
    /\ pc[c] = "except"
    /\ \/ /\ file[c] = None
          /\ Raise(c, AttributeError)
          /\ UNCHANGED <<log, media>>
       \/ /\ file[c] # None
          /\ Append1(c, SaveFileOp(args[c].gif, Some(fid),
                                   Some(e[c].v.code), None))
          /\ media' = media2
          /\ \/ /\ pc' = [pc EXCEPT ![c] = "loop"]
                /\ UNCHANGED exc
             \/ Raise(c, UploadError)
    /\ UNCHANGED <<args, thumb, file, peer, e, r, ret>>

\* the recovery uploads the file again and rebuilds the descriptor
RecoverRebuilds(c) ==
    RecoverUsing(c, IF file[c] = None THEN 0 ELSE file[c].id,
                 [media EXCEPT ![c] =
                    InputMediaUploadedDocument(args[c], InputFile(0), None)])

\* the recovery uploads the part under the thumbnail's file id
RecoverThumb(c) ==
    RecoverUsing(c, IF thumb[c] # None THEN thumb[c].id
                    ELSE IF file[c] # None THEN file[c].id ELSE 0,
                 media)

\* the handle is kept in one place for all calls: the recovery takes the
\* handle of another call when there is one
RecoverShared(c) ==
    RecoverUsing(c,
                 IF \E d \in Calls \ {c} : file[d] # None
                 THEN file[CHOOSE d \in Calls \ {c} : file[d] # None].id
                 ELSE IF file[c] # None THEN file[c].id ELSE 0,
                 media)

\* line 183: self.save_file(gif, file_id=file.id, file_part=e.x);
\* file.id is evaluated before the call
Recover(c) ==
    /\ pc[c] = "except"
    /\ \/ /\ file[c] = None
          /\ Raise(c, AttributeError)
          /\ UNCHANGED log
       \/ /\ file[c] # None
          /\ Append1(c, SaveFileOp(args[c].gif, Some(file[c].id),
                                   Some(e[c].v.code), None))
          /\ \/ /\ pc' = [pc EXCEPT ![c] = "loop"]
                /\ UNCHANGED exc
             \/ Raise(c, UploadError)
    /\ UNCHANGED <<args, thumb, file, media, peer, e, r, ret>>

\* line 182: the only except clause names FilePartMissing, so any other
\* error of the request leaves send_gif as it is
UncaughtM(c, x) ==
    /\ pc' = [pc EXCEPT ![c] = "loop"]
    /\ UNCHANGED exc

Uncaught(c, x) == Raise(c, x)

\* lines 171-181: the request fails with another error
RecvError(c) ==
    /\ pc[c] = "await"
    /\ \E x \in OtherSendErrors :
          /\ Append1(c, AnswerOp("error", x))
          /\ Uncaught(c, x)
    /\ UNCHANGED <<args, thumb, file, media, peer, e, r, ret>>

IsNewMessage(i) ==
    i.tag \in {"UpdateNewMessage", "UpdateNewChannelMessage"}

\* {i.id: i for i in l}, lines 189 and 190
ById(l) ==
    [k \in {l[j].id : j \in 1..Len(l)} |->
        l[CHOOSE j \in 1..Len(l) :
            /\ l[j].id = k
            /\ \A j2 \in 1..Len(l) : l[j2].id = k => j2 <= j]]

\* lines 185-191: the index of the update the loop returns at, 0 if none
ReturnAtM(updates) ==
    IF \E j \in 1..Len(updates) : IsNewMessage(updates[j])
    THEN CHOOSE j \in 1..Len(updates) :
            /\ IsNewMessage(updates[j])
            /\ \A j2 \in (j + 1)..Len(updates) : ~IsNewMessage(updates[j2])
    ELSE 0

ReturnAt(updates) ==
    IF \E j \in 1..Len(updates) : IsNewMessage(updates[j])
    THEN CHOOSE j \in 1..Len(updates) :
            /\ IsNewMessage(updates[j])
            /\ \A j2 \in 1..(j - 1) : ~IsNewMessage(updates[j2])
    ELSE 0

\* utils.parse_messages(self, i.message, users, chats), lines 187-191
parse_messages(message, users, chats) ==
    [tag |-> "Message", message |-> message, users |-> users, chats |-> chats]

\* what follows a response whose updates hold no new message: the for loop
\* ends and the while loop of line 169 goes on
AfterNoMessage(c) ==
    /\ pc' = [pc EXCEPT ![c] = "loop"]
    /\ UNCHANGED ret

\* lines 184-191: the request succeeds
RecvUpdates(c) ==
    /\ pc[c] = "await"
    /\ \E resp \in Responses :
          /\ r' = [r EXCEPT ![c] = resp]
          /\ Append1(c, AnswerOp("ok", resp))
          /\ IF ReturnAt(resp.updates) # 0
             THEN /\ ret' = [ret EXCEPT ![c] =
                        parse_messages(resp.updates[ReturnAt(resp.updates)].message,
                                       ById(resp.users), ById(resp.chats))]
                  /\ pc' = [pc EXCEPT ![c] = "returned"]
             ELSE AfterNoMessage(c)
    /\ UNCHANGED <<args, thumb, file, media, peer, e, exc>>

Next ==
    \E c \in Calls :
        \/ Resolve(c)
        \/ SaveThumb(c)
        \/ SaveFile(c)
        \/ ResolvePeer(c)
        \/ Send(c)
        \/ RecvFilePartMissing(c)
        \/ Recover(c)
        \/ RecvError(c)
        \/ RecvUpdates(c)

Spec == Init /\ [][Next]_vars

(***************************************************************************)
(* Two calls in flight at once.  Each call runs the steps above on its     *)
(* own locals; the steps of the two interleave.  save_file and rnd_id are  *)
(* methods of the client: what one call got from them, no other call gets. *)
(***************************************************************************)
\* send requests of one call when two calls are in flight
MaxConcSends == 1

\* the calls in flight
Started == {1, 2}

\* both calls send a local file
ConcArgs == { MkArgs(ClipPath, TRUE, o) : o \in {o2 \in Options : o2.thumb = None} }

InitConc ==
    /\ args \in [Calls -> ConcArgs \cup {NoArgs}]
    /\ \A c \in Started : args[c] \in ConcArgs
    /\ \A c \in Calls \ Started : args[c] = NoArgs
    /\ pc = [c \in Calls |-> IF c \in Started THEN "start" ELSE "idle"]
    /\ thumb = [c \in Calls |-> args[c].thumb]
    /\ file = [c \in Calls |-> None]
    /\ media = [c \in Calls |-> None]
    /\ peer = [c \in Calls |-> None]
    /\ e = [c \in Calls |-> None]
    /\ r = [c \in Calls |-> None]
    /\ ret = [c \in Calls |-> None]
    /\ exc = [c \in Calls |-> None]
    /\ log = [c \in Calls |-> <<>>]

\* the random ids of the send requests of a call
RandomIdsOf(c) ==
    {log[c][i].request.random_id :
        i \in {j \in 1..Len(log[c]) : log[c][j].op = "send"}}

\* save_file returns a handle no other call holds
OwnHandles ==
    \A c, d \in Calls :
        (c # d /\ file[c] # None /\ file[d] # None) => file[c].id # file[d].id

\* rnd_id returns a value no other call got
OwnRandomIds ==
    \A c, d \in Calls : c # d => RandomIdsOf(c) \cap RandomIdsOf(d) = {}

\* lines 126-127 with the handle save_file returns to this call
SaveFileOwn(c) == SaveFile(c) /\ OwnHandles'

\* line 173, no more than MaxConcSends times
ResolvePeerConc(c) ==
    /\ Count(log[c], "send") < MaxConcSends
    /\ ResolvePeer(c)

\* lines 171-180 with the value rnd_id returns to this call
SendOwn(c) == Send(c) /\ OwnRandomIds'

NextConc ==
    \E c \in Calls :
        \/ Resolve(c)
        \/ SaveFileOwn(c)
        \/ ResolvePeerConc(c)
        \/ SendOwn(c)
        \/ RecvFilePartMissing(c)
        \/ Recover(c)
        \/ RecvError(c)
        \/ RecvUpdates(c)

SpecConc == InitConc /\ [][NextConc]_vars

(***************************************************************************)
(* Reading the log.                                                        *)
(***************************************************************************)
\* the call has left line 124
Active(c) == pc[c] \notin {"idle", "start"}

IsAnswer(x, kind) == x.op = "answer" /\ x.kind = kind

SendIdx(l) == {i \in 1..Len(l) : l[i].op = "send"}

AnswerIdx(l, kind) == {i \in 1..Len(l) : IsAnswer(l[i], kind)}

\* the part re-uploads: save_file with a file_part
ReuploadIdx(l) ==
    {i \in 1..Len(l) : l[i].op = "save_file" /\ l[i].file_part # None}

Min(S) == CHOOSE x \in S : \A y \in S : x <= y

\* the send at i is re-issued after a FilePartMissing: the last answer
\* before it is one
AfterMissingPart(l, i) ==
    \E j \in 1..(i - 1) :
        /\ IsAnswer(l[j], "FilePartMissing")
        /\ \A k \in (j + 1)..(i - 1) : l[k].op # "answer"

\* the branch the call took, read from what it did
TookLocal(c) ==
    \/ pc[c] \in {"thumb", "upload"}
    \/ log[c] # <<>> /\ log[c][1].op = "save_file"

TookUrl(c) == media[c].tag = "InputMediaDocumentExternal"

RaisedFileIdInvalid(c) ==
    /\ pc[c] = "raised"
    /\ exc[c].origin = "send_gif"
    /\ exc[c].type = "FileIdInvalid"

TookFileId(c) ==
    \/ media[c].tag = "InputMediaDocument"
    \/ RaisedFileIdInvalid(c)

(***************************************************************************)
(* C1.  Within one call, every send-media request re-issued after a        *)
(* missing-file-part failure carries the random_id of the call's first     *)
(* send-media request.  The code calls rnd_id() in every pass of the loop  *)
(* (line 177), so this does not hold.                                      *)
(***************************************************************************)
C1_RetryKeepsRandomId ==
    \A c \in Calls :
        \A i \in SendIdx(log[c]) :
            AfterMissingPart(log[c], i) =>
                log[c][i].request.random_id
                    = log[c][Min(SendIdx(log[c]))].request.random_id

(***************************************************************************)
(* C2.  After a success response the call issues no further send-media     *)
(* request, whatever the update list of the response holds, and a call     *)
(* has at most one success response.  The code goes round the while loop   *)
(* again when no update is a new message, so this does not hold.           *)
(***************************************************************************)
C2_NoSendAfterSuccess ==
    \A c \in Calls :
        /\ \A i \in AnswerIdx(log[c], "ok") :
              \A j \in SendIdx(log[c]) : j < i
        /\ Cardinality(AnswerIdx(log[c], "ok")) <= 1

(***************************************************************************)
(* C3.  A success response without an update of either new-message tag     *)
(* ends the call with an error.  In the code the call goes on instead.     *)
(***************************************************************************)
C3_NoMessageIsReported ==
    \A c \in Calls :
        \A i \in AnswerIdx(log[c], "ok") :
            ReturnAt(log[c][i].what.updates) = 0 =>
                /\ i = Len(log[c])
                /\ pc[c] = "raised"

(***************************************************************************)
(* C4.  A FilePartMissing answer to a request whose descriptor is not an   *)
(* uploaded document leads to no part re-upload, and the call raises that  *)
(* FilePartMissing.  The code evaluates file.id with file = None and       *)
(* raises AttributeError instead.                                          *)
(***************************************************************************)
C4_MissingPartWithoutUploadPropagates ==
    \A c \in Calls :
        ( /\ media[c].tag \in {"InputMediaDocumentExternal", "InputMediaDocument"}
          /\ e[c] # None
          /\ pc[c] # "except" ) =>
            /\ ReuploadIdx(log[c]) = {}
            /\ pc[c] = "raised"
            /\ exc[c] = e[c].v

(***************************************************************************)
(* C5.  A local-path call that has returned after N FilePartMissing        *)
(* answers made N part re-uploads and N+1 send-media requests; each        *)
(* re-upload directly follows the failure it answers, carries its part     *)
(* index and the id of the handle of the primary upload, and is followed   *)
(* by a send.  The counts fail in the code when a success response has no  *)
(* new message and the loop sends again (C2).                              *)
(***************************************************************************)
ReuploadsFollowFailures(c) ==
    /\ \A i \in AnswerIdx(log[c], "FilePartMissing") :
          /\ i + 1 \in ReuploadIdx(log[c])
          /\ log[c][i + 1].path = args[c].gif
          /\ log[c][i + 1].file_part = Some(log[c][i].what.code)
          /\ log[c][i + 1].file_id = Some(file[c].id)
          /\ \E j \in SendIdx(log[c]) : j > i + 1
    /\ \A i \in ReuploadIdx(log[c]) :
          i - 1 \in AnswerIdx(log[c], "FilePartMissing")

\* C5: the pairing and the counts N and N+1, for every returned local-path
\* call
C5_RetryCounts ==
    \A c \in Calls :
        (pc[c] = "returned" /\ TookLocal(c)) =>
            /\ ReuploadsFollowFailures(c)
            /\ Cardinality(ReuploadIdx(log[c]))
                  = Cardinality(AnswerIdx(log[c], "FilePartMissing"))
            /\ Cardinality(SendIdx(log[c]))
                  = Cardinality(AnswerIdx(log[c], "FilePartMissing")) + 1

\* what does hold of the code: the same, for the calls with one success
\* response
RetryCountsUpToSuccess ==
    \A c \in Calls :
        ( /\ pc[c] = "returned"
          /\ TookLocal(c)
          /\ Cardinality(AnswerIdx(log[c], "ok")) = 1 ) =>
            /\ ReuploadsFollowFailures(c)
            /\ Cardinality(ReuploadIdx(log[c]))
                  = Cardinality(AnswerIdx(log[c], "FilePartMissing"))
            /\ Cardinality(SendIdx(log[c]))
                  = Cardinality(AnswerIdx(log[c], "FilePartMissing")) + 1

(***************************************************************************)
(* C6.  For an identifier of the document kind the descriptor is an        *)
(* InputMediaDocument.  As claimed: its id and access_hash are the         *)
(* media_id and access_hash fields at the positions of the layout table    *)
(* (3rd and 4th field of the short layout, 5th and 6th of the long one).   *)
(* As amended: they are the 3rd and 4th field in both layouts, which in    *)
(* the long layout are the fields the table calls a and b.                 *)
(***************************************************************************)
DocumentIdentifier(c) ==
    /\ Active(c)
    /\ Route(args[c].gif, args[c].exists) = "file_id"
    /\ args[c].gif \in IdTexts
    /\ Written[args[c].gif].fields[1] = DocumentKind

\* C6 as claimed: id and access_hash from the table's positions of media_id
\* and access_hash
C6_TablePositions ==
    \A c \in Calls :
        DocumentIdentifier(c) =>
            LET w == Written[args[c].gif]
                long == w.fmt = FmtLong
            IN  /\ media[c].tag = "InputMediaDocument"
                /\ media[c].id.id = w.fields[IF long THEN 5 ELSE 3]
                /\ media[c].id.access_hash = w.fields[IF long THEN 6 ELSE 4]

\* C6 as amended: id and access_hash from the 3rd and 4th field in both
\* layouts
C6_ThirdAndFourthField ==
    \A c \in Calls :
        DocumentIdentifier(c) =>
            LET w == Written[args[c].gif]
            IN  /\ media[c].tag = "InputMediaDocument"
                /\ media[c].id.id = w.fields[3]
                /\ media[c].id.access_hash = w.fields[4]

C6_Witness ==
    \E c \in Calls :
        /\ DocumentIdentifier(c)
        /\ Written[args[c].gif].fmt = FmtLong
        /\ media[c].tag = "InputMediaDocument"
        /\ pc[c] = "returned"

(***************************************************************************)
(* C7.  When send_gif raises one of its own FileIdInvalid errors (the      *)
(* text does not decode, the length fits no layout, the kind is of         *)
(* another or of no known media type), the call has issued no upload, no   *)
(* part re-upload, no peer resolution and no send-media request.           *)
(***************************************************************************)
C7_IdentifierErrorsBeforeNetwork ==
    \A c \in Calls :
        RaisedFileIdInvalid(c) =>
            \A i \in 1..Len(log[c]) : log[c][i].op \notin NetOps

C7_Witness ==
    \E c \in Calls :
        /\ RaisedFileIdInvalid(c)
        /\ exc[c] = FileIdInvalidBelongs("video")
        /\ args[c].thumb # None

(***************************************************************************)
(* C8.  The branch is a function of the reference in fixed priority: an    *)
(* existing local path is uploaded, also when it starts with "http";       *)
(* otherwise a reference that starts with "http" is an external URL;       *)
(* only otherwise is it decoded as an identifier.  One branch is taken.    *)
(***************************************************************************)
C8_RouteByPriority ==
    \A c \in Calls :
        Active(c) =>
            LET a == args[c]
                http == StartsWith(a.gif, Http)
            IN  /\ TookLocal(c) <=> a.exists
                /\ TookUrl(c) <=> (~a.exists /\ http)
                /\ TookFileId(c) <=> (~a.exists /\ ~http)

C8_Witness ==
    \E c \in Calls :
        /\ args[c].exists
        /\ StartsWith(args[c].gif, Http)
        /\ media[c].tag = "InputMediaUploadedDocument"
        /\ Count(log[c], "send") > 0

(***************************************************************************)
(* C9.  An error answer to a send-media request that is not                *)
(* FilePartMissing is the last entry of the call's log (no part            *)
(* re-upload, no further request follows) and is what the call raises.     *)
(***************************************************************************)
C9_OtherFailurePropagates ==
    \A c \in Calls :
        \A i \in AnswerIdx(log[c], "error") :
            /\ i = Len(log[c])
            /\ pc[c] = "raised"
            /\ exc[c] = log[c][i].what

C9_Witness ==
    \E c \in Calls :
        /\ AnswerIdx(log[c], "error") # {}
        /\ AnswerIdx(log[c], "FilePartMissing") # {}
        /\ pc[c] = "raised"

(***************************************************************************)
(* C10.  For an identifier that decodes and unpacks, the kind decides:     *)
(* the document kind gives an InputMediaDocument; another kind of the      *)
(* media type table raises FileIdInvalid naming that type; a kind that is  *)
(* not in the table raises FileIdInvalid with the code; and only the       *)
(* document kind gives a descriptor.                                       *)
(***************************************************************************)
C10_KindPartition ==
    \A c \in Calls :
        ( /\ Active(c)
          /\ Route(args[c].gif, args[c].exists) = "file_id"
          /\ args[c].gif \in IdTexts ) =>
            LET kind == Written[args[c].gif].fields[1]
            IN  /\ kind = DocumentKind =>
                      /\ media[c].tag = "InputMediaDocument"
                      /\ ~RaisedFileIdInvalid(c)
                /\ (kind # DocumentKind /\ kind \in DOMAIN MEDIA_TYPE_ID) =>
                      /\ pc[c] = "raised"
                      /\ exc[c] = FileIdInvalidBelongs(MEDIA_TYPE_ID[kind])
                      /\ media[c] = None
                /\ kind \notin DOMAIN MEDIA_TYPE_ID =>
                      /\ pc[c] = "raised"
                      /\ exc[c] = FileIdInvalidUnknown(kind)
                      /\ media[c] = None

C10_Witness ==
    \E c \in Calls :
        /\ args[c].gif \in IdTexts
        /\ Written[args[c].gif].fields[1] = -1
        /\ pc[c] = "raised"
        /\ exc[c] = FileIdInvalidUnknown(-1)

(***************************************************************************)
(* C11.  Decoded bytes of a length other than 24 and 44 (below 24,         *)
(* between 25 and 43, above 44) raise the plain FileIdInvalid of line      *)
(* 152 and give no descriptor; bytes of exactly 24 or 44 are unpacked      *)
(* with the short and the long layout, so the outcome is decided by the    *)
(* kind that was written and never is the plain FileIdInvalid.             *)
(***************************************************************************)
C11_StrictLength ==
    \A c \in Calls :
        (Active(c) /\ Route(args[c].gif, args[c].exists) = "file_id") =>
            /\ args[c].gif \in OddLengthIds =>
                  /\ pc[c] = "raised"
                  /\ exc[c] = FileIdInvalid
                  /\ media[c] = None
            /\ args[c].gif \in IdTexts =>
                  /\ exc[c] # FileIdInvalid
                  /\ Written[args[c].gif].fields[1] = DocumentKind =>
                        media[c].tag = "InputMediaDocument"
                  /\ Written[args[c].gif].fields[1] # DocumentKind =>
                        /\ RaisedFileIdInvalid(c)
                        /\ exc[c].detail # ""

C11_Witness ==
    \E c \in Calls :
        /\ args[c].gif = TextOfLength(32)
        /\ pc[c] = "raised"
        /\ exc[c] = FileIdInvalid
        /\ log[c] = <<>>

(***************************************************************************)
(* C12.  A call that takes the external-URL branch or the identifier       *)
(* branch makes no upload call at all, with or without a thumb argument:   *)
(* its log holds no save_file.                                             *)
(***************************************************************************)
C12_NoUploadWithoutLocalFile ==
    \A c \in Calls :
        (Active(c) /\ Route(args[c].gif, args[c].exists) \in {"url", "file_id"})
            => \A i \in 1..Len(log[c]) : log[c][i].op # "save_file"

C12_Witness ==
    \E c \in Calls :
        /\ args[c].gif = HttpUrl
        /\ args[c].thumb # None
        /\ media[c].tag = "InputMediaDocumentExternal"
        /\ pc[c] = "returned"

(***************************************************************************)
(* C13.  On the local-path branch the descriptor is an uploaded document:  *)
(* file is the handle of the one primary upload, thumb the handle of the   *)
(* thumbnail upload or None, mime_type "video/mp4", and the attributes     *)
(* are, in order, a video attribute with streaming and the caller's        *)
(* duration, width and height, a filename attribute with the base name of  *)
(* the path, and the animated marker.                                      *)
(***************************************************************************)
\* the primary uploads: save_file of the reference, no file_part
PrimaryIdx(c) ==
    {i \in 1..Len(log[c]) :
        /\ log[c][i].op = "save_file"
        /\ log[c][i].file_part = None
        /\ log[c][i].path = args[c].gif}

\* the thumbnail uploads
ThumbIdx(c) ==
    {i \in 1..Len(log[c]) :
        /\ log[c][i].op = "save_file"
        /\ log[c][i].file_part = None
        /\ Some(log[c][i].path) = args[c].thumb}

\* the base names of the local paths of the model
BaseNameOf ==
    (ClipPath :> <<"c","l","i","p",".","m","p","4">>)
        @@ (HttpNamed :> HttpNamed)
        @@ (IdShort(DocumentKind) :> IdShort(DocumentKind))

\* C13: the descriptor of a call that has finished its uploads
C13_UploadedDocument ==
    \A c \in Calls :
        (Active(c) /\ args[c].exists /\ pc[c] \notin {"thumb", "upload"}
                   /\ file[c] # None) =>
            /\ Cardinality(PrimaryIdx(c)) = 1
            /\ media[c].tag = "InputMediaUploadedDocument"
            /\ media[c].file = file[c]
            /\ file[c].tag = "InputFile"
            /\ media[c].thumb = thumb[c]
            /\ args[c].thumb = None => media[c].thumb = None
            /\ args[c].thumb # None => media[c].thumb.tag = "InputFile"
            /\ media[c].mime_type = <<"v","i","d","e","o","/","m","p","4">>
            /\ media[c].attributes =
                  << [tag |-> "DocumentAttributeVideo",
                      supports_streaming |-> TRUE,
                      duration |-> args[c].duration,
                      w |-> args[c].width,
                      h |-> args[c].height],
                     [tag |-> "DocumentAttributeFilename",
                      file_name |-> BaseNameOf[args[c].gif]],
                     [tag |-> "DocumentAttributeAnimated"] >>

C13_Witness ==
    \E c \in Calls :
        /\ args[c].gif = ClipPath
        /\ args[c].duration = 5
        /\ media[c].tag = "InputMediaUploadedDocument"
        /\ media[c].thumb.tag = "InputFile"
        /\ media[c].thumb # media[c].file
        /\ pc[c] = "returned"

(***************************************************************************)
(* C14.  With a thumb argument and a local reference the thumbnail upload  *)
(* is the first operation and has returned its handle before the primary   *)
(* upload is issued; when the thumbnail upload fails there is no primary   *)
(* upload.  On every branch a send-media request is issued only once the   *)
(* descriptor is built, and carries it.                                    *)
(***************************************************************************)
C14_UploadOrder ==
    \A c \in Calls :
        /\ (Active(c) /\ args[c].exists /\ args[c].thumb # None) =>
              /\ \A i \in PrimaryIdx(c) :
                    /\ i = 2
                    /\ 1 \in ThumbIdx(c)
                    /\ thumb[c].tag = "InputFile"
              /\ (pc[c] = "raised" /\ thumb[c] = args[c].thumb) =>
                    /\ PrimaryIdx(c) = {}
                    /\ Len(log[c]) = 1
        /\ \A i \in SendIdx(log[c]) :
              /\ media[c] # None
              /\ log[c][i].request.media = media[c]
              /\ args[c].exists => \E j \in PrimaryIdx(c) : j < i

C14_Witness ==
    \E c \in Calls :
        /\ args[c].exists
        /\ args[c].thumb # None
        /\ pc[c] = "raised"
        /\ exc[c] = UploadError
        /\ ThumbIdx(c) = {1}
        /\ PrimaryIdx(c) = {}

(***************************************************************************)
(* C15.  On the local-path branch a success response or a failure other    *)
(* than FilePartMissing ends the call (it has returned or raised), and     *)
(* the call never ends by a decision of send_gif itself: whatever it       *)
(* raises comes from a collaborator.  In the code a success response       *)
(* without a new message does not end the call: it sends again (C2, C3).   *)
(***************************************************************************)
\* the call does not give up: on the local-path branch it raises only
\* what save_file, resolve_peer or send raised
NoRetryCap ==
    \A c \in Calls :
        (TookLocal(c) /\ pc[c] = "raised") => exc[c].origin # "send_gif"

\* C15: the last answer being a success or another failure, the call is over
C15_LoopEndsOnOtherAnswer ==
    /\ NoRetryCap
    /\ \A c \in Calls :
        ( /\ TookLocal(c)
          /\ log[c] # <<>>
          /\ \/ IsAnswer(log[c][Len(log[c])], "ok")
             \/ IsAnswer(log[c][Len(log[c])], "error") ) =>
            pc[c] \in {"returned", "raised"}

(***************************************************************************)
(* C16.  All send-media requests of a call carry the same descriptor, the  *)
(* one built before the loop, and the same silent flag, reply target and   *)
(* reply markup.                                                           *)
(***************************************************************************)
C16_SameRequestOnRetry ==
    \A c \in Calls :
        \A i \in SendIdx(log[c]) :
            LET first == log[c][Min(SendIdx(log[c]))].request
                this == log[c][i].request
            IN  /\ this.media = first.media
                /\ this.media = media[c]
                /\ this.silent = first.silent
                /\ this.reply_to_msg_id = first.reply_to_msg_id
                /\ this.reply_markup = first.reply_markup
                /\ args[c].exists =>
                      /\ this.media.tag = "InputMediaUploadedDocument"
                      /\ this.media.file = file[c]
                      /\ this.media.thumb = thumb[c]

C16_Witness ==
    \E c \in Calls :
        /\ Cardinality(SendIdx(log[c])) >= 2
        /\ Cardinality(ReuploadIdx(log[c])) >= 1
        /\ media[c].tag = "InputMediaUploadedDocument"
        /\ media[c].thumb # None
        /\ log[c][Min(SendIdx(log[c]))].request.silent = Some(TRUE)
        /\ log[c][Len(log[c])].op = "send"

(***************************************************************************)
(* C17.  What the call returns is built from the first update, in list     *)
(* order, whose tag is UpdateNewMessage or UpdateNewChannelMessage, of     *)
(* the response that ended the call: updates of other tags before it are   *)
(* passed over, what follows it is not looked at, and the user and chat    *)
(* maps hold the entities of that response by id.                          *)
(***************************************************************************)
C17_FirstNewMessage ==
    \A c \in Calls :
        pc[c] = "returned" =>
            /\ IsAnswer(log[c][Len(log[c])], "ok")
            /\ LET resp == log[c][Len(log[c])].what
                   new == {j \in 1..Len(resp.updates) :
                             resp.updates[j].tag \in
                                {"UpdateNewMessage", "UpdateNewChannelMessage"}}
               IN  /\ new # {}
                   /\ ret[c].tag = "Message"
                   /\ ret[c].message = resp.updates[Min(new)].message
                   /\ DOMAIN ret[c].users
                        = {resp.users[j].id : j \in 1..Len(resp.users)}
                   /\ \A j \in 1..Len(resp.users) :
                        ret[c].users[resp.users[j].id] = resp.users[j]
                   /\ DOMAIN ret[c].chats
                        = {resp.chats[j].id : j \in 1..Len(resp.chats)}
                   /\ \A j \in 1..Len(resp.chats) :
                        ret[c].chats[resp.chats[j].id] = resp.chats[j]

C17_Witness ==
    \E c \in Calls :
        /\ pc[c] = "returned"
        /\ Cardinality(AnswerIdx(log[c], "ok")) = 2
        /\ log[c][Len(log[c])].what.updates
              = <<UpdateMessageID, UpdateNewMessage(1), UpdateNewMessage(3)>>
        /\ ret[c].message = [id |-> 1]
        /\ DOMAIN ret[c].users = {7}

(***************************************************************************)
(* C19.  A part re-upload names the primary file: its path is the gif      *)
(* argument and its file id is the id of the handle the primary upload     *)
(* returned, never the thumbnail's, and it carries no progress callback.   *)
(* The progress callback goes to the primary upload and to no other call   *)
(* of save_file.                                                           *)
(***************************************************************************)
C19_RecoveryTargetsPrimary ==
    \A c \in Calls :
        \A i \in 1..Len(log[c]) :
            log[c][i].op = "save_file" =>
                /\ i \in ReuploadIdx(log[c]) =>
                      /\ file[c] # None
                      /\ log[c][i].path = args[c].gif
                      /\ log[c][i].file_id = Some(file[c].id)
                      /\ log[c][i].progress = None
                      /\ PrimaryIdx(c) # {} /\ Min(PrimaryIdx(c)) < i
                /\ log[c][i].progress # None =>
                      /\ i \in PrimaryIdx(c)
                      /\ log[c][i].progress = args[c].progress
                /\ i \in PrimaryIdx(c) =>
                      log[c][i].progress = args[c].progress

C19_Witness ==
    \E c \in Calls :
        /\ ReuploadIdx(log[c]) # {}
        /\ thumb[c] # None /\ file[c] # None
        /\ thumb[c].id # file[c].id
        /\ args[c].progress = Some("callback")
        /\ \E i \in PrimaryIdx(c) : log[c][i].progress = Some("callback")
        /\ \E i \in ThumbIdx(c) : log[c][i].progress = None

(***************************************************************************)
(* C20.  The peer is resolved once for every send request, right before    *)
(* it, and never before the media reference is resolved: every upload of   *)
(* a whole file precedes the first resolution.  On the local-path branch   *)
(* a failure of the peer resolution is raised after the thumbnail and      *)
(* primary uploads, and if it is the first resolution the call ends with   *)
(* no send request.                                                        *)
(***************************************************************************)
ResolvePeerIdx(l) == {i \in 1..Len(l) : l[i].op = "resolve_peer"}

C20_PeerPerAttempt ==
    \A c \in Calls :
        LET l == log[c]
            rp == ResolvePeerIdx(l)
        IN  /\ \A i \in SendIdx(l) : i > 1 /\ (i - 1) \in rp
            /\ \A i \in rp :
                  /\ l[i].chat_id = args[c].chat_id
                  /\ media[c] # None
                  /\ \A j \in PrimaryIdx(c) \cup ThumbIdx(c) : j < i
                  /\ args[c].exists =>
                        /\ PrimaryIdx(c) # {}
                        /\ args[c].thumb # None => ThumbIdx(c) # {}
                  /\ IF i < Len(l) THEN l[i + 1].op = "send"
                     ELSE \/ pc[c] = "send"
                          \/ pc[c] = "raised" /\ exc[c] = PeerIdInvalid
            /\ (pc[c] = "raised" /\ exc[c] = PeerIdInvalid) =>
                  /\ l # <<>> /\ Len(l) \in rp
                  /\ Cardinality(rp) = 1 => SendIdx(l) = {}

C20_Witness ==
    \E c \in Calls :
        /\ pc[c] = "raised" /\ exc[c] = PeerIdInvalid
        /\ Len(log[c]) = 3
        /\ ThumbIdx(c) = {1} /\ PrimaryIdx(c) = {2}
        /\ ResolvePeerIdx(log[c]) = {3}

=============================================================================
